---------------------------- MODULE Spec2Model ----------------------------
(***************************************************************************)
(* A model of shlog4go (src/shlog4go.go): a leveled, categorized file      *)
(* logger.  The module holds these state machines over one set of         *)
(* variables:                                                              *)
(*   SpecCfg  the configuration calls SetLevelMap / SetDefaultLevel /      *)
(*            SetCategory and the filter checkPrintable;                   *)
(*   SpecOpen Open, successful or not, and the configuration calls after;  *)
(*   SpecFmt  the scan loop of formatHeader over a template;               *)
(*   SpecRace that loop with SetPrefix running concurrently;               *)
(*   SpecChk  checkPrintable read by read, with the configuration calls    *)
(*            running concurrently;                                        *)
(*   Spec     concurrent callers of Printf / Println / Sprintf / Sprintln  *)
(*            / Close / Reopen on one logger, with its mutex and sink;     *)
(*   SpecLive Spec under fair scheduling.                                  *)
(* Strings that are only compared (level names, category names as map      *)
(* keys) are TLA+ strings; strings that are scanned or concatenated are    *)
(* sequences of one-character strings.                                     *)
(***************************************************************************)
EXTENDS Integers, Sequences, FiniteSets, TLC

VARIABLES
    \* ---- SHLogger fields (src/shlog4go.go:12-21)
    levelmap,     \* map[string]int: level name -> severity
    categories,   \* map[string]int: category -> threshold severity
    deflevel,     \* int: default threshold
    prefix,       \* header template, a sequence of characters
    timeformat,   \* layout given to time.Format ("" selects RFC3339)
    out,          \* *os.File: the handle currently installed
    mutex,        \* sync.Mutex: 0 when free, else the thread holding it
    \* ---- the file system and the os.File handles
    hfile,        \* handle -> the file it was opened on
    closed,       \* the handles that have been closed
    files,        \* file -> its content, a sequence of characters
    \* ---- one caller per thread
    pc,           \* where each thread stands in its call
    call,         \* the call a thread is in: operation and arguments
    buf,          \* the local buf of Printf/Println/Sprintf/Sprintln
    wh,           \* the handle on which a thread's Write was issued
    wn,           \* bytes of buf the sink has taken so far
    newh,         \* Reopen's local `out` (0 before the open)
    ret,          \* the result of a thread's last finished call
    \* ---- formatHeader's loop (locals i, lasti/end, *buf)
    fpc, fi, fend, fbuf, fctx,
    fiter,        \* history: iterations of the outer loop begun so far
    fseen,        \* history: the templates log.prefix held during the call
    \* ---- checkPrintable's steps (locals lv, cl, ok and the result)
    kpc, kcall, klv, kcl, kok, kres,
    \* ---- history variables, read by the properties only
    kseen,        \* the configurations held since a checkPrintable call began
    op,           \* the last configuration call, with its arguments
    lastDef,      \* severity resolved by the most recent SetDefaultLevel
    lastCat,      \* category -> severity resolved by its most recent SetCategory
    trace,        \* the steps a thread's current call has performed
    hdrOut,       \* the handle that was installed when a thread rendered its header
    committed,    \* file -> concatenation of the buffers whose Write returned
    broken,       \* TRUE from Close or a failed Reopen until a Reopen succeeds
    lastOpened,   \* the handle returned by the most recent successful open
    ncalls        \* calls started so far

cfgVars  == <<levelmap, categories, deflevel>>
cfgHist  == <<op, lastDef, lastCat, kseen>>
tplVars  == <<prefix, timeformat>>
sinkVars == <<out, mutex, hfile, closed, files>>
thrVars  == <<pc, call, buf, wh, wn, newh, ret>>
fmtVars  == <<fpc, fi, fend, fbuf, fctx, fiter, fseen>>
chkVars  == <<kpc, kcall, klv, kcl, kok, kres>>
runHist  == <<trace, hdrOut, committed, broken, lastOpened, ncalls>>
vars == <<cfgVars, cfgHist, tplVars, sinkVars, thrVars, fmtVars, chkVars, runHist>>

---------------------------------------------------------------------------
(* Bounds of the model. *)

\* Number of concurrent callers.
NThreads == 2
\* Calls started in one run of Spec.
MaxCalls == 3
\* Length of the templates SpecFmt enumerates.
MaxLen == 3
\* Configuration calls that run while one checkPrintable call is under way.
MaxCfgCalls == 2

---------------------------------------------------------------------------
(* Level tables and the filter. *)

\* The table Open installs (src/shlog4go.go:32-40).
DefaultLevelMap ==
    [OFF |-> 1, FATAL |-> 2, ERROR |-> 3, WARN |-> 4, INFO |-> 5, DEBUG |-> 6, ALL |-> 7]

\* Level names callers pass; TRACE is a key of no table used here.
LevelNames == {"OFF", "WARN", "DEBUG", "ALL", "TRACE"}

\* Tables a caller may pass to SetLevelMap (any map[string]int): the default
\* one, one that gives the same names other severities, and one that omits
\* names and gives one a negative severity.
LevelMaps ==
    { DefaultLevelMap,
      [OFF |-> 7, FATAL |-> 6, ERROR |-> 5, WARN |-> 2, INFO |-> 3, DEBUG |-> 1, ALL |-> 4],
      [WARN |-> 5, ALL |-> 3, OFF |-> -1] }

\* Category names; each is a prefix of the next.
Categories == {"db", "db.read", "db.readonly"}

\* The bytes of the names that are scanned or written.
Chars(s) ==
    CASE s = "db"          -> <<"d", "b">>
      [] s = "db.read"     -> <<"d", "b", ".", "r", "e", "a", "d">>
      [] s = "db.readonly" -> <<"d", "b", ".", "r", "e", "a", "d", "o", "n", "l", "y">>
      [] s = "a"           -> <<"a">>
      [] s = "OFF"         -> <<"O", "F", "F">>
      [] s = "WARN"        -> <<"W", "A", "R", "N">>
      [] s = "DEBUG"       -> <<"D", "E", "B", "U", "G">>
      [] s = "ALL"         -> <<"A", "L", "L">>
      [] s = "TRACE"       -> <<"T", "R", "A", "C", "E">>
      [] OTHER             -> <<>>

\* A lookup that gives a missing key a severity above every level's.
Lookup_MaxSentinel(m, k) == IF k \in DOMAIN m THEN m[k] ELSE 8

\* Go's m[k] on a map[string]int: the value, or the zero value 0 when k is
\* not a key.
Lookup(m, k) == IF k \in DOMAIN m THEN m[k] ELSE 0

\* The map m with m[k] = v added or overwritten.
MapSet(m, k, v) == [x \in DOMAIN m \cup {k} |-> IF x = k THEN v ELSE m[x]]

\* make(map[string]int)
EmptyMap == [x \in {} |-> 0]

IsPrefix(s, t) == Len(s) <= Len(t) /\ SubSeq(t, 1, Len(s)) = s

\* checkPrintable with `lv < cl` / `lv < deflevel` for `<=`.
checkPrintable_Strict(category, level) ==
    LET lv == Lookup(levelmap, level) IN
    IF category \in DOMAIN categories
    THEN lv < categories[category]
    ELSE lv < deflevel

\* checkPrintable that falls back to the override of a category whose name
\* is a proper prefix of the asked one (hierarchical matching).
checkPrintable_Prefix(category, level) ==
    LET lv == Lookup(levelmap, level)
        up == {c \in DOMAIN categories : IsPrefix(Chars(c), Chars(category))}
    IN  IF category \in DOMAIN categories
        THEN lv <= categories[category]
        ELSE IF up # {}
             THEN lv <= categories[CHOOSE c \in up : \A d \in up : Len(Chars(d)) <= Len(Chars(c))]
             ELSE lv <= deflevel

\* func (log *SHLogger) checkPrintable(category, level string) bool
checkPrintable(category, level) ==
    LET lv == Lookup(levelmap, level) IN
    IF category \in DOMAIN categories
    THEN lv <= categories[category]
    ELSE lv <= deflevel

\* SetLevelMap that also re-derives the default threshold from the new table.
SetLevelMap_Rederive(lm) ==
    /\ levelmap' = lm
    /\ deflevel' = Lookup(lm, "WARN")
    /\ UNCHANGED categories

\* SetLevelMap that adds the entries of lm to the table in place.
SetLevelMap_Merge(lm) ==
    /\ levelmap' = [k \in DOMAIN levelmap \cup DOMAIN lm |->
                        IF k \in DOMAIN lm THEN lm[k] ELSE levelmap[k]]
    /\ UNCHANGED <<categories, deflevel>>

\* func (log *SHLogger) SetLevelMap(lm map[string]int)
SetLevelMap(lm) ==
    /\ levelmap' = lm
    /\ UNCHANGED <<categories, deflevel>>

\* func (log *SHLogger) SetDefaultLevel(level string)
SetDefaultLevel(level) ==
    /\ deflevel' = Lookup(levelmap, level)
    /\ UNCHANGED <<levelmap, categories>>

\* func (log *SHLogger) SetCategory(category string, level string)
SetCategory(category, level) ==
    /\ categories' = MapSet(categories, category, Lookup(levelmap, level))
    /\ UNCHANGED <<levelmap, deflevel>>

---------------------------------------------------------------------------
(* The header template engine. *)

Percent == "%"

\* The characters SpecFmt builds templates from: '%', the nine directive
\* letters, and 'z', which selects no directive.
Alphabet == {"%", "p", "F", "f", "l", "m", "t", "c", "L", "z"}

\* The call context: what runtime.Caller(2) and runtime.FuncForPC return for
\* the call site (src/shlog4go.go:95-96), the wall clock, and the category
\* and level arguments.  `now` maps a layout to what time.Time.Format gives.
FmtCtxs ==
    { [pc |-> 4198, file |-> <<"/", "s", "/", "m", ".", "g", "o">>, line |-> 42,
       fn |-> <<"m", ".", "r">>,
       now |-> [RFC3339 |-> <<"1", "T", "2", "Z">>, custom |-> <<"1", ":", "2">>],
       category |-> "db", level |-> "WARN"],
      [pc |-> 7, file |-> <<"m", ".", "g", "o">>, line |-> 105,
       fn |-> <<"f">>,
       now |-> [RFC3339 |-> <<"3", "T", "4", "Z">>, custom |-> <<"3", ":", "4">>],
       category |-> "db.read", level |-> "ALL"] }

\* The context of a call made from one fixed call site.
CtxOf(category, level) ==
    [pc |-> 4198, file |-> <<"/", "s", "/", "m", ".", "g", "o">>, line |-> 42,
     fn |-> <<"m", ".", "r">>,
     now |-> [RFC3339 |-> <<"1", "T", "2", "Z">>, custom |-> <<"1", ":", "2">>],
     category |-> category, level |-> level]

\* Values of the timeformat field: unset, or a layout of the caller's.
TimeFormats == {"", "custom"}

DigitChars == <<"0", "1", "2", "3", "4", "5", "6", "7", "8", "9">>

\* fmt.Sprintf("%d", n) for n >= 0.
RECURSIVE Itoa(_)
Itoa(n) ==
    IF n < 10 THEN <<DigitChars[n + 1]>>
    ELSE Itoa(n \div 10) \o <<DigitChars[(n % 10) + 1]>>

\* strings.LastIndex(s, sep) for a one-character sep: the 0-based index of
\* its last occurrence, or -1.
LastIndex(s, sep) ==
    LET I == {i \in 1..Len(s) : s[i] = sep}
    IN  IF I = {} THEN -1 ELSE (CHOOSE i \in I : \A j \in I : j <= i) - 1

\* func getShortFileName(filename string) string
getShortFileName(filename) ==
    SubSeq(filename, LastIndex(filename, "/") + 2, Len(filename))

\* func getTimeString(timeformat string) string, at the instant `now`.
getTimeString(tf, now) ==
    IF tf = "" THEN now["RFC3339"] ELSE now[tf]

\* The switch of formatHeader with the cases 'c' and 'L' exchanged.
Directive_Swapped(ch, ctx, tf) ==
    CASE ch = "p" -> Itoa(ctx.pc)
      [] ch = "F" -> ctx.file
      [] ch = "f" -> getShortFileName(ctx.file)
      [] ch = "l" -> Itoa(ctx.line)
      [] ch = "m" -> ctx.fn
      [] ch = "t" -> getTimeString(tf, ctx.now)
      [] ch = "c" -> Chars(ctx.level)
      [] ch = "L" -> Chars(ctx.category)
      [] ch = Percent -> <<Percent>>
      [] OTHER -> <<>>

\* The switch of formatHeader with a default case that echoes the character.
Directive_Echo(ch, ctx, tf) ==
    CASE ch = "p" -> Itoa(ctx.pc)
      [] ch = "F" -> ctx.file
      [] ch = "f" -> getShortFileName(ctx.file)
      [] ch = "l" -> Itoa(ctx.line)
      [] ch = "m" -> ctx.fn
      [] ch = "t" -> getTimeString(tf, ctx.now)
      [] ch = "c" -> Chars(ctx.category)
      [] ch = "L" -> Chars(ctx.level)
      [] ch = Percent -> <<Percent>>
      [] OTHER -> <<ch>>

\* The switch of formatHeader: what the directive character ch appends.
Directive(ch, ctx, tf) ==
    CASE ch = "p" -> Itoa(ctx.pc)
      [] ch = "F" -> ctx.file
      [] ch = "f" -> getShortFileName(ctx.file)
      [] ch = "l" -> Itoa(ctx.line)
      [] ch = "m" -> ctx.fn
      [] ch = "t" -> getTimeString(tf, ctx.now)
      [] ch = "c" -> Chars(ctx.category)
      [] ch = "L" -> Chars(ctx.level)
      [] ch = Percent -> <<Percent>>
      [] OTHER -> <<>>

\* The inner loop `for i < end && log.prefix[i] != '%' { i++ }`: the value
\* of i when it stops (indices are Go's, 0-based; p[i+1] is log.prefix[i]).
\* p is the template log.prefix holds when the loop runs; end was measured
\* at line 97.  Reading p at an index it does not have is Go's run-time
\* panic "index out of range", given as -1.
RECURSIVE ScanEnd(_, _, _)
ScanEnd(p, i, end) ==
    IF ~(i < end) THEN i
    ELSE IF i >= Len(p) THEN -1
    ELSE IF p[i + 1] # Percent THEN ScanEnd(p, i + 1, end)
    ELSE i

\* One step of the outer loop, on st = [pc, i, buf]:
\*   at "loop"  the loop test, then lines 99-109: the literal run is
\*              appended, i steps over the '%', and the loop breaks when
\*              that leaves i >= end;
\*   at "dir"   lines 110-131: the switch on log.prefix[i], then i++;
\*   "panic"    is a read of log.prefix at an index it does not have.

\* FmtStep without the `if i >= end { break }` of lines 107-109.
FmtStep_NoBreak(p, end, ctx, tf, st) ==
    IF st.pc = "loop"
    THEN IF ~(st.i < end)
         THEN [st EXCEPT !.pc = "done"]
         ELSE LET j == ScanEnd(p, st.i, end)
                  b == IF j > st.i THEN st.buf \o SubSeq(p, st.i + 1, j) ELSE st.buf
              IN  IF j < 0
                  THEN [st EXCEPT !.pc = "panic"]
                  ELSE [pc |-> "dir", i |-> j + 1, buf |-> b]
    ELSE IF st.i >= Len(p)
         THEN [st EXCEPT !.pc = "panic"]
         ELSE [pc |-> "loop", i |-> st.i + 1,
               buf |-> st.buf \o Directive(p[st.i + 1], ctx, tf)]

\* The step as the source has it.
FmtStep(p, end, ctx, tf, st) ==
    IF st.pc = "loop"
    THEN IF ~(st.i < end)
         THEN [st EXCEPT !.pc = "done"]
         ELSE LET j == ScanEnd(p, st.i, end)
                  b == IF j > st.i THEN st.buf \o SubSeq(p, st.i + 1, j) ELSE st.buf
              IN  IF j < 0
                  THEN [st EXCEPT !.pc = "panic"]
                  ELSE [pc |-> IF j + 1 >= end THEN "done" ELSE "dir",
                        i |-> j + 1, buf |-> b]
    ELSE IF st.i >= Len(p)
         THEN [st EXCEPT !.pc = "panic"]
         ELSE [pc |-> "loop", i |-> st.i + 1,
               buf |-> st.buf \o Directive(p[st.i + 1], ctx, tf)]

RECURSIVE FmtRun(_, _, _, _, _)
FmtRun(p, end, ctx, tf, st) ==
    IF st.pc \in {"done", "panic"} THEN st.buf
    ELSE FmtRun(p, end, ctx, tf, FmtStep(p, end, ctx, tf, st))

\* func (log *SHLogger) formatHeader(category, level string, buf *[]byte),
\* on an empty buf: the header it leaves in buf.
formatHeader(p, ctx, tf) ==
    FmtRun(p, Len(p), ctx, tf, [pc |-> "loop", i |-> 0, buf |-> <<>>])

---------------------------------------------------------------------------
(* The state after Open (src/shlog4go.go:23-44), where every               *)
(* specification but SpecOpen starts.  Handle 1 is the one Open got, on    *)
(* file 1.  The fields                                                     *)
(* prefix and timeformat, which Open leaves empty and SetPrefix and        *)
(* SetTimeFormat set, are given by each specification.                     *)

NoCall == [op |-> "none", category |-> "", level |-> ""]
NoRet  == [op |-> "none", filtered |-> FALSE, n |-> 0, err |-> "nil", s |-> <<>>]

Threads == 1..NThreads

AfterOpen ==
    /\ levelmap = DefaultLevelMap
    /\ categories = EmptyMap
    /\ deflevel = Lookup(DefaultLevelMap, "WARN")
    /\ out = 1
    /\ mutex = 0
    /\ hfile = <<1>>
    /\ closed = {}
    /\ files = << <<>> >>
    /\ pc = [t \in Threads |-> "idle"]
    /\ call = [t \in Threads |-> NoCall]
    /\ buf = [t \in Threads |-> <<>>]
    /\ wh = [t \in Threads |-> 0]
    /\ wn = [t \in Threads |-> 0]
    /\ newh = [t \in Threads |-> 0]
    /\ ret = [t \in Threads |-> NoRet]
    /\ op = [name |-> "Open", category |-> "", level |-> "WARN", lm |-> DefaultLevelMap]
    /\ lastDef = Lookup(DefaultLevelMap, "WARN")
    /\ lastCat = EmptyMap
    /\ trace = [t \in Threads |-> {}]
    /\ hdrOut = [t \in Threads |-> 0]
    /\ committed = << <<>> >>
    /\ broken = FALSE
    /\ lastOpened = 1
    /\ ncalls = 0

\* No checkPrintable call is being stepped through.
ChkIdle ==
    /\ kpc = "off"
    /\ kcall = [category |-> "", level |-> ""]
    /\ klv = 0
    /\ kcl = 0
    /\ kok = FALSE
    /\ kres = FALSE
    /\ kseen = <<>>

FmtIdle ==
    /\ fpc = "off"
    /\ fi = 0
    /\ fend = 0
    /\ fbuf = <<>>
    /\ fctx = CtxOf("", "")
    /\ fiter = 0
    /\ fseen = {}

---------------------------------------------------------------------------
(* SpecCfg: configuration calls, one at a time. *)

\* The configuration a call leaves joins the history of a checkPrintable
\* call that is under way.
Seen ==
    kseen' = IF kpc \in {"lv", "cat", "cmp"}
             THEN Append(kseen, [levelmap |-> levelmap', categories |-> categories',
                                 deflevel |-> deflevel'])
             ELSE kseen

CfgSetLevelMap(lm) ==
    /\ SetLevelMap(lm)
    /\ op' = [name |-> "SetLevelMap", category |-> "", level |-> "", lm |-> lm]
    /\ UNCHANGED <<lastDef, lastCat>>
    /\ Seen
    /\ UNCHANGED <<tplVars, sinkVars, thrVars, fmtVars, chkVars, runHist>>

CfgSetDefaultLevel(level) ==
    /\ SetDefaultLevel(level)
    /\ op' = [name |-> "SetDefaultLevel", category |-> "", level |-> level, lm |-> EmptyMap]
    /\ lastDef' = Lookup(levelmap, level)
    /\ UNCHANGED lastCat
    /\ Seen
    /\ UNCHANGED <<tplVars, sinkVars, thrVars, fmtVars, chkVars, runHist>>

CfgSetCategory(category, level) ==
    /\ SetCategory(category, level)
    /\ op' = [name |-> "SetCategory", category |-> category, level |-> level, lm |-> EmptyMap]
    /\ lastCat' = MapSet(lastCat, category, Lookup(levelmap, level))
    /\ UNCHANGED lastDef
    /\ Seen
    /\ UNCHANGED <<tplVars, sinkVars, thrVars, fmtVars, chkVars, runHist>>

InitCfg ==
    /\ AfterOpen
    /\ FmtIdle
    /\ ChkIdle
    /\ prefix = <<>>
    /\ timeformat = ""

NextCfg ==
    \/ \E lm \in LevelMaps : CfgSetLevelMap(lm)
    \/ \E l \in LevelNames : CfgSetDefaultLevel(l)
    \/ \E c \in Categories, l \in LevelNames : CfgSetCategory(c, l)

SpecCfg == InitCfg /\ [][NextCfg]_vars

---------------------------------------------------------------------------
(* SpecOpen: Open, then the configuration calls on the logger it returned. *)

\* Before Open: no logger, and every field-to-be at its zero value.
NoLogger ==
    /\ levelmap = EmptyMap
    /\ categories = EmptyMap
    /\ deflevel = 0
    /\ out = 0
    /\ mutex = 0
    /\ hfile = <<>>
    /\ closed = {}
    /\ files = << <<>> >>
    /\ pc = [t \in Threads |-> "idle"]
    /\ call = [t \in Threads |-> NoCall]
    /\ buf = [t \in Threads |-> <<>>]
    /\ wh = [t \in Threads |-> 0]
    /\ wn = [t \in Threads |-> 0]
    /\ newh = [t \in Threads |-> 0]
    /\ ret = [t \in Threads |-> NoRet]
    /\ op = [name |-> "none", category |-> "", level |-> "", lm |-> EmptyMap]
    /\ lastDef = 0
    /\ lastCat = EmptyMap
    /\ trace = [t \in Threads |-> {}]
    /\ hdrOut = [t \in Threads |-> 0]
    /\ committed = << <<>> >>
    /\ broken = FALSE
    /\ lastOpened = 0
    /\ ncalls = 0

\* Open that calls SetDefaultLevel("WARN") before SetLevelMap: the name is
\* resolved in the table of the moment, which is still empty.
OpenOk_DefaultFirst ==
    /\ op.name = "none"
    /\ out' = 1
    /\ hfile' = <<1>>
    /\ lastOpened' = 1
    /\ categories' = EmptyMap
    /\ deflevel' = Lookup(levelmap, "WARN")
    /\ levelmap' = DefaultLevelMap
    /\ op' = [name |-> "Open", category |-> "", level |-> "WARN", lm |-> DefaultLevelMap]
    /\ lastDef' = deflevel'
    /\ lastCat' = EmptyMap
    /\ UNCHANGED kseen
    /\ UNCHANGED <<mutex, closed, files>>
    /\ UNCHANGED <<tplVars, thrVars, fmtVars, chkVars>>
    /\ UNCHANGED <<trace, hdrOut, committed, broken, ncalls>>

\* func Open(filename string) (*SHLogger, error), os.OpenFile succeeding:
\* lines 28-42 in order (out, categories, SetLevelMap, SetDefaultLevel).
OpenOk ==
    /\ op.name = "none"
    /\ out' = 1
    /\ hfile' = <<1>>
    /\ lastOpened' = 1
    /\ categories' = EmptyMap
    /\ levelmap' = DefaultLevelMap
    /\ deflevel' = Lookup(levelmap', "WARN")
    /\ op' = [name |-> "Open", category |-> "", level |-> "WARN", lm |-> DefaultLevelMap]
    /\ lastDef' = deflevel'
    /\ lastCat' = EmptyMap
    /\ UNCHANGED kseen
    /\ UNCHANGED <<mutex, closed, files>>
    /\ UNCHANGED <<tplVars, thrVars, fmtVars, chkVars>>
    /\ UNCHANGED <<trace, hdrOut, committed, broken, ncalls>>

\* Open, os.OpenFile failing (lines 24-27): `return nil, err`.  The error
\* is recorded as the result of caller 1.
OpenFail ==
    /\ op.name = "none"
    /\ op' = [name |-> "OpenFailed", category |-> "", level |-> "", lm |-> EmptyMap]
    /\ ret' = [ret EXCEPT ![1] = [op |-> "Open", filtered |-> FALSE, n |-> 0,
                                  err |-> "OpenError", s |-> <<>>]]
    /\ UNCHANGED <<lastDef, lastCat, kseen>>
    /\ UNCHANGED <<pc, call, buf, wh, wn, newh>>
    /\ UNCHANGED <<cfgVars, tplVars, sinkVars, fmtVars, chkVars, runHist>>

\* A logger exists: Open returned one.
HasLogger == out # 0

OpenedSetLevelMap(lm) == HasLogger /\ CfgSetLevelMap(lm)

OpenedSetDefaultLevel(level) == HasLogger /\ CfgSetDefaultLevel(level)

OpenedSetCategory(category, level) == HasLogger /\ CfgSetCategory(category, level)

InitOpen ==
    /\ NoLogger
    /\ FmtIdle
    /\ ChkIdle
    /\ prefix = <<>>
    /\ timeformat = ""

NextOpen ==
    \/ OpenOk
    \/ OpenFail
    \/ \E lm \in LevelMaps : OpenedSetLevelMap(lm)
    \/ \E l \in LevelNames : OpenedSetDefaultLevel(l)
    \/ \E c \in Categories, l \in LevelNames : OpenedSetCategory(c, l)

SpecOpen == InitOpen /\ [][NextOpen]_vars

---------------------------------------------------------------------------
(* SpecFmt: one run of formatHeader's loop over a template. *)

RECURSIVE SeqsUpTo(_, _)
SeqsUpTo(S, n) ==
    IF n = 0 THEN {<<>>}
    ELSE LET shorter == SeqsUpTo(S, n - 1)
         IN  shorter \cup {Append(s, x) : s \in shorter, x \in S}

\* The template of the spec's example, "[%L] %c: ".
ExampleTemplate == <<"[", "%", "L", "]", " ", "%", "c", ":", " ">>

\* A template with an unrecognized directive between literals and a
\* trailing '%': "c%zL%".
DanglingTemplate == <<"c", "%", "z", "L", "%">>

Templates == SeqsUpTo(Alphabet, MaxLen) \cup {ExampleTemplate, DanglingTemplate}

FmtState == [pc |-> fpc, i |-> fi, buf |-> fbuf]

FmtApply ==
    LET st == FmtStep(prefix, fend, fctx, timeformat, FmtState)
    IN  /\ fpc' = st.pc
        /\ fi' = st.i
        /\ fbuf' = st.buf
        /\ fiter' = IF fpc = "loop" /\ fi < fend THEN fiter + 1 ELSE fiter
        /\ UNCHANGED <<fend, fctx, fseen>>
        /\ UNCHANGED <<cfgVars, cfgHist, tplVars, sinkVars, thrVars, chkVars, runHist>>

\* The loop test fails: `for i := 0; i < end;`.
FmtExit ==
    /\ fpc = "loop"
    /\ ~(fi < fend)
    /\ FmtApply

\* Lines 99-109: the literal run, the step over '%', the break.
FmtScan ==
    /\ fpc = "loop"
    /\ fi < fend
    /\ FmtApply

\* Lines 110-131: the switch and the step over the directive character.
FmtDirective ==
    /\ fpc = "dir"
    /\ FmtApply

InitFmt ==
    /\ AfterOpen
    /\ ChkIdle
    /\ prefix \in Templates
    /\ timeformat \in TimeFormats
    /\ fctx \in FmtCtxs
    /\ fpc = "loop"
    /\ fi = 0
    /\ fend = Len(prefix)
    /\ fbuf = <<>>
    /\ fiter = 0
    /\ fseen = {prefix}

NextFmt ==
    \/ FmtExit
    \/ FmtScan
    \/ FmtDirective

SpecFmt == InitFmt /\ [][NextFmt]_vars

---------------------------------------------------------------------------
(* SpecRace: formatHeader's loop with SetPrefix running in another         *)
(* goroutine.  log.prefix is no local: `end` is measured once (line 97)    *)
(* and every log.prefix[i] and log.prefix[lasti:i] after that reads the    *)
(* field again, so the loop goes on in whatever template the field holds.  *)

\* func (log *SHLogger) SetPrefix(prefix string)
SetPrefix(p) ==
    /\ prefix' = p
    /\ UNCHANGED timeformat

\* Templates set while a header is rendered.
RaceTemplates ==
    { <<"%", "c", "%", "L">>, <<"%", "L", "%", "c">>, <<"c">>, <<>> }

\* SetPrefix by another goroutine while the loop is between two steps.
RaceSetPrefix(p) ==
    /\ fpc \in {"loop", "dir"}
    /\ SetPrefix(p)
    /\ fseen' = fseen \cup {p}
    /\ UNCHANGED <<fpc, fi, fend, fbuf, fctx, fiter>>
    /\ UNCHANGED <<cfgVars, cfgHist, sinkVars, thrVars, chkVars, runHist>>

InitRace ==
    /\ AfterOpen
    /\ ChkIdle
    /\ prefix \in RaceTemplates
    /\ timeformat = ""
    /\ fctx \in FmtCtxs
    /\ fpc = "loop"
    /\ fi = 0
    /\ fend = Len(prefix)
    /\ fbuf = <<>>
    /\ fiter = 0
    /\ fseen = {prefix}

NextRace ==
    \/ FmtExit
    \/ FmtScan
    \/ FmtDirective
    \/ \E p \in RaceTemplates : RaceSetPrefix(p)

SpecRace == InitRace /\ [][NextRace]_vars

---------------------------------------------------------------------------
(* SpecChk: one checkPrintable call, read by read, with configuration      *)
(* calls running in other goroutines.  Nothing synchronizes the two: the   *)
(* call reads log.levelmap (line 136), then log.categories (line 137),     *)
(* then, for a category without override, log.deflevel (line 141).  A map  *)
(* read that overlaps SetCategory's map write is a data race on the map:   *)
(* the read gets the old entry or the new one, or the Go runtime stops     *)
(* the program ("concurrent map read and map write").                      *)

\* The configuration of the moment.
Config == [levelmap |-> levelmap, categories |-> categories, deflevel |-> deflevel]

\* The category and level of the call under way.
ChkCalls == [category : {"db"}, level : LevelNames]

ChkActive == kpc \in {"lv", "cat", "cmp"}

\* Line 136: lv := log.levelmap[level]
ChkReadLevel ==
    /\ kpc = "lv"
    /\ klv' = Lookup(levelmap, kcall.level)
    /\ kpc' = "cat"
    /\ UNCHANGED <<kcall, kcl, kok, kres>>
    /\ UNCHANGED <<cfgVars, cfgHist, tplVars, sinkVars, thrVars, fmtVars, runHist>>

\* Line 137: cl, ok := log.categories[category]
ChkReadCategory ==
    /\ kpc = "cat"
    /\ kok' = (kcall.category \in DOMAIN categories)
    /\ kcl' = Lookup(categories, kcall.category)
    /\ kpc' = "cmp"
    /\ UNCHANGED <<kcall, klv, kres>>
    /\ UNCHANGED <<cfgVars, cfgHist, tplVars, sinkVars, thrVars, fmtVars, runHist>>

\* Lines 138-142: return lv <= cl, or return lv <= log.deflevel
ChkDecide ==
    /\ kpc = "cmp"
    /\ kres' = IF kok THEN klv <= kcl ELSE klv <= deflevel
    /\ kpc' = "done"
    /\ UNCHANGED <<kcall, klv, kcl, kok>>
    /\ UNCHANGED <<cfgVars, cfgHist, tplVars, sinkVars, thrVars, fmtVars, runHist>>

\* Line 137 overlapping the map write of a SetCategory(category, level)
\* (line 79): the write takes effect and the read does one of the three
\* things above.
ChkReadCategoryRacing(category, level, outcome) ==
    /\ kpc = "cat"
    /\ Len(kseen) <= MaxCfgCalls
    /\ SetCategory(category, level)
    /\ op' = [name |-> "SetCategory", category |-> category, level |-> level, lm |-> EmptyMap]
    /\ lastCat' = MapSet(lastCat, category, Lookup(levelmap, level))
    /\ UNCHANGED lastDef
    /\ Seen
    /\ \/ /\ outcome = "old"
          /\ kok' = (kcall.category \in DOMAIN categories)
          /\ kcl' = Lookup(categories, kcall.category)
          /\ kpc' = "cmp"
       \/ /\ outcome = "new"
          /\ kok' = (kcall.category \in DOMAIN categories')
          /\ kcl' = Lookup(categories', kcall.category)
          /\ kpc' = "cmp"
       \/ /\ outcome = "fatal"
          /\ kpc' = "fatal"
          /\ UNCHANGED <<kok, kcl>>
    /\ UNCHANGED <<kcall, klv, kres>>
    /\ UNCHANGED <<tplVars, sinkVars, thrVars, fmtVars, runHist>>

\* The configuration calls, between two steps of the checkPrintable call.
RaceSetLevelMap(lm) ==
    /\ ChkActive
    /\ Len(kseen) <= MaxCfgCalls
    /\ CfgSetLevelMap(lm)

RaceSetDefaultLevel(level) ==
    /\ ChkActive
    /\ Len(kseen) <= MaxCfgCalls
    /\ CfgSetDefaultLevel(level)

RaceSetCategory(category, level) ==
    /\ ChkActive
    /\ Len(kseen) <= MaxCfgCalls
    /\ CfgSetCategory(category, level)

InitChk ==
    /\ AfterOpen
    /\ FmtIdle
    /\ prefix = <<>>
    /\ timeformat = ""
    /\ kpc = "lv"
    /\ kcall \in ChkCalls
    /\ klv = 0
    /\ kcl = 0
    /\ kok = FALSE
    /\ kres = FALSE
    /\ kseen = <<Config>>

NextChk ==
    \/ ChkReadLevel
    \/ ChkReadCategory
    \/ ChkDecide
    \/ \E c \in Categories, l \in LevelNames, o \in {"old", "new", "fatal"} :
           ChkReadCategoryRacing(c, l, o)
    \/ \E lm \in LevelMaps : RaceSetLevelMap(lm)
    \/ \E l \in LevelNames : RaceSetDefaultLevel(l)
    \/ \E c \in Categories, l \in LevelNames : RaceSetCategory(c, l)

SpecChk == InitChk /\ [][NextChk]_vars

---------------------------------------------------------------------------
(* Spec: concurrent callers on one logger.                                 *)
(*                                                                         *)
(* A handle is a number; hfile[h] is the file it was opened on and         *)
(* files[f] the content of file f.  The file at log.filename is the file   *)
(* of the handle opened last, unless it has been renamed away since, in    *)
(* which case the next open creates a file (O_CREATE).  os.File.Write      *)
(* takes time: it is issued on a handle, fails at once with ErrClosed and  *)
(* 0 bytes on a closed handle, and otherwise hands its bytes to the file   *)
(* one at a time; a Close that comes while a Write is in flight lets that  *)
(* Write finish.                                                           *)

PrintOps  == {"Printf", "Println"}
SprintOps == {"Sprintf", "Sprintln"}

\* The categories and levels callers log with; under the table of Open,
\* WARN passes the filter and DEBUG does not.
RunCategories == {"a"}
RunLevels == {"WARN", "DEBUG"}

\* The header template the logger was given (SetPrefix) before the run.
RunPrefixes == {<<"%", "c">>}

Calls ==
    [op : PrintOps \cup SprintOps, category : RunCategories, level : RunLevels]
        \cup {[op |-> "Close", category |-> "", level |-> ""],
              [op |-> "Reopen", category |-> "", level |-> ""]}

\* The body: fmt.Sprintf(format, a...) for Printf and Sprintf,
\* fmt.Sprintln(a...), which ends in a newline, for Println and Sprintln.
Body(o) == IF o \in {"Printf", "Sprintf"} THEN <<"x">> ELSE <<"x", "\n">>

Returned(t, n, err, s) ==
    ret' = [ret EXCEPT ![t] =
              [op |-> call[t].op, filtered |-> FALSE, n |-> n, err |-> err, s |-> s]]

\* The locals of a call are dropped when it returns.
DropLocals(t) ==
    /\ call' = [call EXCEPT ![t] = NoCall]
    /\ buf' = [buf EXCEPT ![t] = <<>>]
    /\ wh' = [wh EXCEPT ![t] = 0]
    /\ wn' = [wn EXCEPT ![t] = 0]
    /\ newh' = [newh EXCEPT ![t] = 0]

Did(t, steps) == trace' = [trace EXCEPT ![t] = @ \cup steps]

\* A caller starts a call.
Call(t, c) ==
    /\ pc[t] = "idle"
    /\ ncalls < MaxCalls
    /\ ncalls' = ncalls + 1
    /\ call' = [call EXCEPT ![t] = c]
    /\ pc' = [pc EXCEPT ![t] =
                IF c.op = "Close" THEN "close"
                ELSE IF c.op = "Reopen" THEN "rlock" ELSE "filter"]
    /\ ret' = [ret EXCEPT ![t] = NoRet]
    /\ trace' = [trace EXCEPT ![t] = {}]
    /\ hdrOut' = [hdrOut EXCEPT ![t] = 0]
    /\ UNCHANGED <<buf, wh, wn, newh, committed, broken, lastOpened>>
    /\ UNCHANGED <<cfgVars, cfgHist, tplVars, sinkVars, fmtVars, chkVars>>

\* The early return with formatHeader called before the filter is asked.
FilterReturn_AfterHeader(t) ==
    /\ ret' = [ret EXCEPT ![t] =
                 [op |-> call[t].op, filtered |-> TRUE, n |-> 0, err |-> "nil", s |-> <<>>]]
    /\ Did(t, {"caller", "render"})
    /\ pc' = [pc EXCEPT ![t] = "idle"]

\* `if !log.checkPrintable(category, level) { return }`: the zero results.
FilterReturn(t) ==
    /\ ret' = [ret EXCEPT ![t] =
                 [op |-> call[t].op, filtered |-> TRUE, n |-> 0, err |-> "nil", s |-> <<>>]]
    /\ UNCHANGED trace
    /\ pc' = [pc EXCEPT ![t] = "idle"]

\* The filter rejects the call (lines 146-148, 158-160, 170-172, 180-182).
FilterFail(t) ==
    /\ pc[t] = "filter"
    /\ ~checkPrintable(call[t].category, call[t].level)
    /\ FilterReturn(t)
    /\ DropLocals(t)
    /\ UNCHANGED <<hdrOut, committed, broken, lastOpened, ncalls>>
    /\ UNCHANGED <<cfgVars, cfgHist, tplVars, sinkVars, fmtVars, chkVars>>

\* Printf / Println that take the lock on entry, before the header is
\* rendered.
FilterPass_Locked(t) ==
    /\ pc[t] = "filter"
    /\ checkPrintable(call[t].category, call[t].level)
    /\ IF call[t].op \in PrintOps THEN mutex = 0 /\ mutex' = t ELSE UNCHANGED mutex
    /\ pc' = [pc EXCEPT ![t] = "header"]
    /\ UNCHANGED <<out, hfile, closed, files>>
    /\ UNCHANGED <<call, buf, wh, wn, newh, ret, runHist>>
    /\ UNCHANGED <<cfgVars, cfgHist, tplVars, fmtVars, chkVars>>

\* The filter lets the call through.
FilterPass(t) ==
    /\ pc[t] = "filter"
    /\ checkPrintable(call[t].category, call[t].level)
    /\ pc' = [pc EXCEPT ![t] = "header"]
    /\ UNCHANGED <<call, buf, wh, wn, newh, ret, runHist>>
    /\ UNCHANGED <<cfgVars, cfgHist, tplVars, sinkVars, fmtVars, chkVars>>

\* `var buf []byte; log.formatHeader(category, level, &buf);
\*  buf = append(buf, fmt.Sprint..(..)...)`: header + body.
Compose(c) ==
    formatHeader(prefix, CtxOf(c.category, c.level), timeformat) \o Body(c.op)

\* Printf / Println render and compose, then go for the lock.
PrintHeader(t) ==
    /\ pc[t] = "header"
    /\ call[t].op \in PrintOps
    /\ buf' = [buf EXCEPT ![t] = Compose(call[t])]
    /\ pc' = [pc EXCEPT ![t] = "lock"]
    /\ Did(t, {"caller", "render"})
    /\ hdrOut' = [hdrOut EXCEPT ![t] = out]
    /\ UNCHANGED <<call, wh, wn, newh, ret, committed, broken, lastOpened, ncalls>>
    /\ UNCHANGED <<cfgVars, cfgHist, tplVars, sinkVars, fmtVars, chkVars>>

\* Sprintf / Sprintln that take log.mutex around the rendering, as Printf
\* does around its write.
SprintHeader_Locked(t) ==
    /\ pc[t] = "header"
    /\ call[t].op \in SprintOps
    /\ mutex = 0
    /\ Returned(t, 0, "nil", Compose(call[t]))
    /\ pc' = [pc EXCEPT ![t] = "idle"]
    /\ Did(t, {"caller", "render"})
    /\ hdrOut' = [hdrOut EXCEPT ![t] = out]
    /\ DropLocals(t)
    /\ UNCHANGED <<committed, broken, lastOpened, ncalls>>
    /\ UNCHANGED <<cfgVars, cfgHist, tplVars, sinkVars, fmtVars, chkVars>>

\* Sprintf / Sprintln render, compose and return string(buf).
SprintHeader(t) ==
    /\ pc[t] = "header"
    /\ call[t].op \in SprintOps
    /\ Returned(t, 0, "nil", Compose(call[t]))
    /\ pc' = [pc EXCEPT ![t] = "idle"]
    /\ Did(t, {"caller", "render"})
    /\ hdrOut' = [hdrOut EXCEPT ![t] = out]
    /\ DropLocals(t)
    /\ UNCHANGED <<committed, broken, lastOpened, ncalls>>
    /\ UNCHANGED <<cfgVars, cfgHist, tplVars, sinkVars, fmtVars, chkVars>>

\* A Lock that does not wait for the holder.
MutexLock_NoWait(t) ==
    mutex' = t

\* log.mutex.Lock()
MutexLock(t) ==
    /\ mutex = 0
    /\ mutex' = t

\* log.mutex.Unlock()
MutexUnlock(t) ==
    mutex' = 0

\* Printf / Println line 152 / 164.
PrintLock(t) ==
    /\ pc[t] = "lock"
    /\ MutexLock(t)
    /\ pc' = [pc EXCEPT ![t] = "write"]
    /\ Did(t, {"lock"})
    /\ UNCHANGED <<out, hfile, closed, files>>
    /\ UNCHANGED <<call, buf, wh, wn, newh, ret, hdrOut, committed, broken, lastOpened, ncalls>>
    /\ UNCHANGED <<cfgVars, cfgHist, tplVars, fmtVars, chkVars>>

\* The handle read before the lock was taken, when the header was rendered.
SinkOf_Stale(t) == hdrOut[t]

\* `log.out` as Printf / Println read it, after the lock is taken.
SinkOf(t) == out

\* A write step that, on a closed handle, tries again instead of returning
\* the error.
PrintWrite_Retry(t) ==
    /\ pc[t] = "write"
    /\ LET h == SinkOf(t) IN
        /\ wh' = [wh EXCEPT ![t] = h]
        /\ IF h \in closed
           THEN UNCHANGED <<pc, ret>>
           ELSE IF buf[t] = <<>>
           THEN /\ Returned(t, 0, "nil", <<>>)
                /\ pc' = [pc EXCEPT ![t] = "unlock"]
           ELSE /\ pc' = [pc EXCEPT ![t] = "writing"]
                /\ UNCHANGED ret
    /\ Did(t, {"write"})
    /\ UNCHANGED <<call, buf, wn, newh, hdrOut, committed, broken, lastOpened, ncalls>>
    /\ UNCHANGED <<cfgVars, cfgHist, tplVars, sinkVars, fmtVars, chkVars>>

\* `return log.out.Write(buf)`: the Write is issued.
PrintWrite(t) ==
    /\ pc[t] = "write"
    /\ LET h == SinkOf(t) IN
        /\ wh' = [wh EXCEPT ![t] = h]
        /\ IF h \in closed \/ buf[t] = <<>>
           THEN /\ Returned(t, 0, IF h \in closed THEN "ErrClosed" ELSE "nil", <<>>)
                /\ pc' = [pc EXCEPT ![t] = "unlock"]
           ELSE /\ pc' = [pc EXCEPT ![t] = "writing"]
                /\ UNCHANGED ret
    /\ Did(t, {"write"})
    /\ UNCHANGED <<call, buf, wn, newh, hdrOut, committed, broken, lastOpened, ncalls>>
    /\ UNCHANGED <<cfgVars, cfgHist, tplVars, sinkVars, fmtVars, chkVars>>

\* The file takes the next byte of the Write in flight; the Write returns
\* len(buf), nil after the last one.
PrintWriteByte(t) ==
    /\ pc[t] = "writing"
    /\ wn[t] < Len(buf[t])
    /\ LET f == hfile[wh[t]] IN
        /\ files' = [files EXCEPT ![f] = Append(@, buf[t][wn[t] + 1])]
        /\ wn' = [wn EXCEPT ![t] = @ + 1]
        /\ IF wn[t] + 1 = Len(buf[t])
           THEN /\ Returned(t, Len(buf[t]), "nil", <<>>)
                /\ committed' = [committed EXCEPT ![f] = @ \o buf[t]]
                /\ pc' = [pc EXCEPT ![t] = "unlock"]
           ELSE UNCHANGED <<ret, committed, pc>>
    /\ Did(t, {"append"})
    /\ UNCHANGED <<out, mutex, hfile, closed>>
    /\ UNCHANGED <<call, buf, wh, newh, hdrOut, broken, lastOpened, ncalls>>
    /\ UNCHANGED <<cfgVars, cfgHist, tplVars, fmtVars, chkVars>>

\* The deferred log.mutex.Unlock() of Printf, Println and Reopen, and the
\* return to the caller.
Unlock(t) ==
    /\ pc[t] = "unlock"
    /\ MutexUnlock(t)
    /\ pc' = [pc EXCEPT ![t] = "idle"]
    /\ DropLocals(t)
    /\ UNCHANGED <<out, hfile, closed, files>>
    /\ UNCHANGED <<ret, runHist>>
    /\ UNCHANGED <<cfgVars, cfgHist, tplVars, fmtVars, chkVars>>

\* log.out.Close()
CloseSink ==
    closed' = closed \cup {out}

\* func (log *SHLogger) Close(), called by a user: no lock is taken.
Close(t) ==
    /\ pc[t] = "close"
    /\ CloseSink
    /\ broken' = TRUE
    /\ Returned(t, 0, "nil", <<>>)
    /\ pc' = [pc EXCEPT ![t] = "idle"]
    /\ DropLocals(t)
    /\ UNCHANGED <<out, mutex, hfile, files>>
    /\ UNCHANGED <<trace, hdrOut, committed, lastOpened, ncalls>>
    /\ UNCHANGED <<cfgVars, cfgHist, tplVars, fmtVars, chkVars>>

\* Reopen that goes on without the lock.
ReopenLock_None(t) ==
    UNCHANGED mutex

\* Reopen line 51: log.mutex.Lock()
ReopenLock(t) ==
    MutexLock(t)

ReopenEnter(t) ==
    /\ pc[t] = "rlock"
    /\ ReopenLock(t)
    /\ pc' = [pc EXCEPT ![t] = "rclose"]
    /\ Did(t, {"lock"})
    /\ UNCHANGED <<out, hfile, closed, files>>
    /\ UNCHANGED <<call, buf, wh, wn, newh, ret, hdrOut, committed, broken, lastOpened, ncalls>>
    /\ UNCHANGED <<cfgVars, cfgHist, tplVars, fmtVars, chkVars>>

\* Reopen that opens the file again without closing the old handle.
ReopenCloseOld_Skip ==
    UNCHANGED closed

\* A Close that takes log.mutex itself: inside Reopen, which holds the
\* mutex already, it waits for ever (sync.Mutex is not reentrant).
ReopenCloseOld_Locking ==
    /\ mutex = 0
    /\ CloseSink

\* Reopen line 53: log.Close()
ReopenCloseOld ==
    CloseSink

ReopenClose(t) ==
    /\ pc[t] = "rclose"
    /\ ReopenCloseOld
    /\ pc' = [pc EXCEPT ![t] = "ropen"]
    /\ UNCHANGED <<out, mutex, hfile, files>>
    /\ UNCHANGED <<call, buf, wh, wn, newh, ret, runHist>>
    /\ UNCHANGED <<cfgVars, cfgHist, tplVars, fmtVars, chkVars>>

\* The file at log.filename, while it has not been renamed away.
FileAtPath == hfile[Len(hfile)]

\* Reopen lines 54-57: os.OpenFile fails; `return err`.
ReopenOpenFail(t) ==
    /\ pc[t] = "ropen"
    /\ Returned(t, 0, "OpenError", <<>>)
    /\ broken' = TRUE
    /\ pc' = [pc EXCEPT ![t] = "unlock"]
    /\ UNCHANGED <<call, buf, wh, wn, newh, trace, hdrOut, committed, lastOpened, ncalls>>
    /\ UNCHANGED <<cfgVars, cfgHist, tplVars, sinkVars, fmtVars, chkVars>>

\* Reopen line 54: os.OpenFile succeeds, on the file that is at the path
\* (rotated = FALSE) or, that file having been renamed away, on a file it
\* creates (rotated = TRUE).
ReopenOpenOk(t, rotated) ==
    /\ pc[t] = "ropen"
    /\ LET h == Len(hfile) + 1 IN
        /\ newh' = [newh EXCEPT ![t] = h]
        /\ lastOpened' = h
        /\ IF rotated
           THEN /\ files' = Append(files, <<>>)
                /\ committed' = Append(committed, <<>>)
                /\ hfile' = Append(hfile, Len(files) + 1)
           ELSE /\ hfile' = Append(hfile, FileAtPath)
                /\ UNCHANGED <<files, committed>>
    /\ pc' = [pc EXCEPT ![t] = "rinstall"]
    /\ UNCHANGED <<out, mutex, closed>>
    /\ UNCHANGED <<call, buf, wh, wn, ret, trace, hdrOut, broken, ncalls>>
    /\ UNCHANGED <<cfgVars, cfgHist, tplVars, fmtVars, chkVars>>

\* Reopen line 58: log.out = out
InstallOut(t) ==
    out' = newh[t]

\* Reopen lines 58-59: the new handle is installed; `return nil`.
ReopenInstall(t) ==
    /\ pc[t] = "rinstall"
    /\ InstallOut(t)
    /\ broken' = FALSE
    /\ Returned(t, 0, "nil", <<>>)
    /\ pc' = [pc EXCEPT ![t] = "unlock"]
    /\ UNCHANGED <<mutex, hfile, closed, files>>
    /\ UNCHANGED <<call, buf, wh, wn, newh, trace, hdrOut, committed, lastOpened, ncalls>>
    /\ UNCHANGED <<cfgVars, cfgHist, tplVars, fmtVars, chkVars>>

Init ==
    /\ AfterOpen
    /\ FmtIdle
    /\ ChkIdle
    /\ prefix \in RunPrefixes
    /\ timeformat = ""

Next ==
    \/ \E t \in Threads, c \in Calls : Call(t, c)
    \/ \E t \in Threads : FilterFail(t)
    \/ \E t \in Threads : FilterPass(t)
    \/ \E t \in Threads : PrintHeader(t)
    \/ \E t \in Threads : SprintHeader(t)
    \/ \E t \in Threads : PrintLock(t)
    \/ \E t \in Threads : PrintWrite(t)
    \/ \E t \in Threads : PrintWriteByte(t)
    \/ \E t \in Threads : Unlock(t)
    \/ \E t \in Threads : Close(t)
    \/ \E t \in Threads : ReopenEnter(t)
    \/ \E t \in Threads : ReopenClose(t)
    \/ \E t \in Threads : ReopenOpenFail(t)
    \/ \E t \in Threads, rotated \in BOOLEAN : ReopenOpenOk(t, rotated)
    \/ \E t \in Threads : ReopenInstall(t)

Spec == Init /\ [][Next]_vars

\* Spec under fair scheduling.  A thread that can take a step of its call
\* other than a Lock eventually takes it: the runtime schedules every
\* runnable goroutine, and the sink's open, write and close calls return.
\* A thread waiting in log.mutex.Lock() eventually gets the mutex if it is
\* free again and again: sync.Mutex hands the lock to a waiter that has
\* been starved (starvation mode).  Starting a call is up to the caller:
\* no fairness.
ThreadStep(t) ==
    \/ FilterFail(t)
    \/ FilterPass(t)
    \/ PrintHeader(t)
    \/ SprintHeader(t)
    \/ PrintWrite(t)
    \/ PrintWriteByte(t)
    \/ Unlock(t)
    \/ Close(t)
    \/ ReopenClose(t)
    \/ ReopenOpenFail(t)
    \/ \E rotated \in BOOLEAN : ReopenOpenOk(t, rotated)
    \/ ReopenInstall(t)

LockStep(t) ==
    \/ PrintLock(t)
    \/ ReopenEnter(t)

SpecLive ==
    /\ Init
    /\ [][Next]_vars
    /\ \A t \in Threads : WF_vars(ThreadStep(t)) /\ SF_vars(LockStep(t))

---------------------------------------------------------------------------
(* Properties of the filter and of the configuration calls (SpecCfg). *)

\* The threshold that applies to category c by the history of calls: the
\* severity resolved by the most recent SetCategory(c, .) when there was
\* one, else the severity resolved by the most recent SetDefaultLevel.
ThresholdOf(c) == IF c \in DOMAIN lastCat THEN lastCat[c] ELSE lastDef

\* C1: after any sequence of SetLevelMap, SetDefaultLevel and SetCategory
\* calls, checkPrintable(c, l) is true exactly when the severity of l in the
\* current level table is <= the threshold stored by the most recent
\* SetCategory(c, .), or, when c never got an override, by the most recent
\* SetDefaultLevel; and a SetDefaultLevel call changes the result for no
\* category that has an override.
C1_FilterThreshold ==
    /\ [](\A c \in Categories, l \in LevelNames :
            checkPrintable(c, l) <=> (Lookup(levelmap, l) <= ThresholdOf(c)))
    /\ [][op'.name = "SetDefaultLevel" =>
            \A c \in DOMAIN lastCat, l \in LevelNames :
                checkPrintable(c, l)' = checkPrintable(c, l)]_vars

\* C1's case: "db" has an override, a SetDefaultLevel came after it, and
\* the filter of "db" differs from what the default threshold would give.
C1_Witness ==
    /\ op.name = "SetDefaultLevel"
    /\ "db" \in DOMAIN categories
    /\ \E l \in LevelNames : checkPrintable("db", l) # (Lookup(levelmap, l) <= deflevel)

\* C7: SetDefaultLevel and SetCategory store the severity that the level
\* table of the moment gives the name, and a later SetLevelMap changes
\* neither the default threshold nor any category override.
C7_StoresSeverity ==
    [][/\ op'.name = "SetDefaultLevel" => deflevel' = Lookup(levelmap, op'.level)
       /\ op'.name = "SetCategory" =>
            /\ op'.category \in DOMAIN categories'
            /\ categories'[op'.category] = Lookup(levelmap, op'.level)
       /\ op'.name = "SetLevelMap" => (deflevel' = deflevel /\ categories' = categories)]_vars

\* C7's case: a SetLevelMap has just installed a table in which no name
\* resolves to the stored default (4, from WARN) or to the stored override
\* of "db" (7, from ALL), and both are still stored.
C7_Witness ==
    /\ op.name = "SetLevelMap"
    /\ deflevel = 4
    /\ "db" \in DOMAIN categories
    /\ categories["db"] = 7
    /\ Lookup(levelmap, "WARN") # 4
    /\ Lookup(levelmap, "ALL") # 7
    /\ \A l \in LevelNames : Lookup(levelmap, l) \notin {4, 7}

\* C8: SetCategory(c, level) leaves checkPrintable(c2, l) as it was for
\* every other category c2 (names that extend c or that c extends included)
\* and every level l, and leaves the default threshold and the level table
\* unchanged.
C8_CategoryExactMatch ==
    [][op'.name = "SetCategory" =>
        /\ \A c2 \in Categories \ {op'.category}, l \in LevelNames :
               checkPrintable(c2, l)' = checkPrintable(c2, l)
        /\ deflevel' = deflevel
        /\ levelmap' = levelmap]_vars

\* C8's case: "db.read" has just been set to ALL while "db" (a prefix of
\* it) and "db.readonly" (an extension of it) have no override: ALL prints
\* for "db.read" only.
C8_Witness ==
    /\ op = [name |-> "SetCategory", category |-> "db.read", level |-> "ALL", lm |-> EmptyMap]
    /\ DOMAIN categories = {"db.read"}
    /\ checkPrintable("db.read", "ALL")
    /\ ~checkPrintable("db", "ALL")
    /\ ~checkPrintable("db.readonly", "ALL")

---------------------------------------------------------------------------
(* The unknown level and the replacement of the level table (SpecCfg). *)

\* C11 as stated: in every configuration reachable through SetLevelMap,
\* SetDefaultLevel and SetCategory, a level name that is not a key of the
\* current level table passes the filter for every category.
C11_Original ==
    \A c \in Categories, l \in LevelNames :
        l \notin DOMAIN levelmap => checkPrintable(c, l)

\* C11: a level name that is not a key of the current level table passes
\* the filter of a category exactly when the threshold stored for that
\* category (its override, else the default threshold) is not negative; the
\* stored threshold is negative only after a table that holds a negative
\* severity.
C11_UnknownLevelPasses ==
    \A c \in Categories, l \in LevelNames :
        l \notin DOMAIN levelmap =>
            (checkPrintable(c, l) <=> ThresholdOf(c) >= 0)

\* C11's case: TRACE and DEBUG are keys of the current table no more, the
\* default threshold is the 0 that an unknown name resolved to, "db" holds
\* an override, and both names pass for both kinds of category.
C11_Witness ==
    /\ "TRACE" \notin DOMAIN levelmap
    /\ "DEBUG" \notin DOMAIN levelmap
    /\ deflevel = 0
    /\ "db" \in DOMAIN categories
    /\ categories["db"] = 7
    /\ "db.read" \notin DOMAIN categories
    /\ checkPrintable("db", "DEBUG")
    /\ checkPrintable("db.read", "TRACE")

\* The names looked up in a level table: the callers' and the tables' keys.
LevelKeys == LevelNames \cup UNION {DOMAIN lm : lm \in LevelMaps}

\* C14: SetLevelMap(m) replaces the whole table: after it every name
\* resolves to m[name] when the name is a key of m and to 0 otherwise, the
\* keys of the previous table included.
C14_SetLevelMapReplaces ==
    [][op'.name = "SetLevelMap" =>
        /\ DOMAIN levelmap' = DOMAIN op'.lm
        /\ \A n \in LevelKeys :
               Lookup(levelmap, n)' = IF n \in DOMAIN op'.lm THEN op'.lm[n] ELSE 0]_vars

\* C14's case: a SetLevelMap has just installed the table without DEBUG and
\* INFO (keys of every other table, so of the previous one), and both
\* resolve to 0 while WARN resolves to the new table's 5.
C14_Witness ==
    /\ op.name = "SetLevelMap"
    /\ DOMAIN op.lm = {"WARN", "ALL", "OFF"}
    /\ Lookup(levelmap, "DEBUG") = 0
    /\ Lookup(levelmap, "INFO") = 0
    /\ Lookup(levelmap, "WARN") = 5

---------------------------------------------------------------------------
(* The state Open leaves (SpecOpen). *)

\* C20: right after a successful Open the level table is OFF=1, FATAL=2,
\* ERROR=3, WARN=4, INFO=5, DEBUG=6, ALL=7, no category has an override and
\* the default threshold is 4 (WARN), so for every category OFF, FATAL,
\* ERROR and WARN are printable and INFO, DEBUG and ALL are not; this is the
\* state the other specifications start from.  A failed Open returns the
\* error and no logger.
C20_OpenDefaults ==
    /\ op.name = "Open" =>
        /\ DOMAIN levelmap = {"OFF", "FATAL", "ERROR", "WARN", "INFO", "DEBUG", "ALL"}
        /\ levelmap["OFF"] = 1 /\ levelmap["FATAL"] = 2 /\ levelmap["ERROR"] = 3
        /\ levelmap["WARN"] = 4 /\ levelmap["INFO"] = 5 /\ levelmap["DEBUG"] = 6
        /\ levelmap["ALL"] = 7
        /\ DOMAIN categories = {}
        /\ deflevel = 4
        /\ \A c \in Categories \cup {"a", ""} :
            /\ \A l \in {"OFF", "FATAL", "ERROR", "WARN"} : checkPrintable(c, l)
            /\ \A l \in {"INFO", "DEBUG", "ALL"} : ~checkPrintable(c, l)
        /\ AfterOpen
    /\ op.name = "OpenFailed" =>
        /\ ret[1].op = "Open"
        /\ ret[1].err = "OpenError"
        /\ ~HasLogger
        /\ NoLogger!1 /\ NoLogger!2 /\ NoLogger!3
        /\ \A lm \in LevelMaps : ~ENABLED OpenedSetLevelMap(lm)

\* C20's case: Open has just returned a logger, on handle 1, and WARN is
\* printable while INFO is not.
C20_Witness ==
    /\ op.name = "Open"
    /\ HasLogger
    /\ ret[1].err = "nil"
    /\ checkPrintable("db", "WARN")
    /\ ~checkPrintable("db", "INFO")

---------------------------------------------------------------------------
(* Properties of formatHeader (SpecFmt). *)

\* The path with its leading directory components stripped.
RECURSIVE RefBaseName(_)
RefBaseName(path) ==
    IF \E i \in 1..Len(path) : path[i] = "/" THEN RefBaseName(Tail(path)) ELSE path

\* The table of directives: what '%' followed by ch stands for.
RefSubst(ch, ctx, tf) ==
    IF ch = "c" THEN Chars(ctx.category)
    ELSE IF ch = "L" THEN Chars(ctx.level)
    ELSE IF ch = "%" THEN <<"%">>
    ELSE IF ch = "p" THEN Itoa(ctx.pc)
    ELSE IF ch = "F" THEN ctx.file
    ELSE IF ch = "f" THEN RefBaseName(ctx.file)
    ELSE IF ch = "l" THEN Itoa(ctx.line)
    ELSE IF ch = "m" THEN ctx.fn
    ELSE IF ch = "t" THEN (IF tf = "" THEN ctx.now["RFC3339"] ELSE ctx.now[tf])
    ELSE <<>>

\* The left-to-right reference rendering of a template: a character other
\* than '%' is copied, '%' and the character after it are replaced by the
\* directive's substitution, and a '%' with nothing after it gives nothing.
RECURSIVE RefRender(_, _, _)
RefRender(tpl, ctx, tf) ==
    IF tpl = <<>> THEN <<>>
    ELSE IF Head(tpl) # "%" THEN <<Head(tpl)>> \o RefRender(Tail(tpl), ctx, tf)
    ELSE IF Len(tpl) = 1 THEN <<>>
    ELSE RefSubst(tpl[2], ctx, tf) \o RefRender(SubSeq(tpl, 3, Len(tpl)), ctx, tf)

\* Read left to right, the template ends in a '%' that starts a directive
\* and has no character after it.
RECURSIVE Dangling(_)
Dangling(tpl) ==
    IF tpl = <<>> THEN FALSE
    ELSE IF Head(tpl) # "%" THEN Dangling(Tail(tpl))
    ELSE IF Len(tpl) = 1 THEN TRUE
    ELSE Dangling(SubSeq(tpl, 3, Len(tpl)))

KnownDirectives == {"p", "F", "f", "l", "m", "t", "c", "L", "%"}

\* C9: for every template and call context, what formatHeader leaves in
\* buf is the left-to-right reference rendering of the template; a template
\* without '%' renders unchanged, and "[%L] %c: " with level WARN and
\* category db renders "[WARN] db: ".
C9_HeaderIsReference ==
    fpc = "done" =>
        /\ fbuf = RefRender(prefix, fctx, timeformat)
        /\ (\A i \in 1..Len(prefix) : prefix[i] # "%") => fbuf = prefix
        /\ (prefix = ExampleTemplate /\ fctx.level = "WARN" /\ fctx.category = "db") =>
               fbuf = <<"[", "W", "A", "R", "N", "]", " ", "d", "b", ":", " ">>

\* C9's case: the example template has been rendered for WARN and db.
C9_Witness ==
    /\ fpc = "done"
    /\ prefix = ExampleTemplate
    /\ fctx.level = "WARN"
    /\ fctx.category = "db"
    /\ fbuf = <<"[", "W", "A", "R", "N", "]", " ", "d", "b", ":", " ">>

\* C10: when the template ends in a '%' that starts a directive, the output
\* is the rendering of the text before it and the loop ends without reading
\* past the template; when a '%' that starts a directive is followed by an
\* unrecognized character, the output is the rendering of the text before
\* the pair followed by the rendering of the text after the pair (the pair
\* gives nothing and exactly its two characters are consumed).
C10_DanglingAndUnknown ==
    /\ fpc = "dir" => fi < fend
    /\ fpc = "done" =>
        LET n == Len(prefix)
            Before(k) == SubSeq(prefix, 1, k - 1)
            After(k) == SubSeq(prefix, k + 2, n)
        IN  /\ (n >= 1 /\ prefix[n] = "%" /\ ~Dangling(Before(n))) =>
                   fbuf = formatHeader(Before(n), fctx, timeformat)
            /\ \A k \in 1..(n - 1) :
                   (/\ prefix[k] = "%"
                    /\ ~Dangling(Before(k))
                    /\ prefix[k + 1] \notin KnownDirectives) =>
                       fbuf = formatHeader(Before(k), fctx, timeformat)
                                \o formatHeader(After(k), fctx, timeformat)

\* C10's case: "c%zL%" has been rendered: the literals around the
\* unrecognized pair are output, the pair and the trailing '%' give nothing.
C10_Witness ==
    /\ fpc = "done"
    /\ prefix = DanglingTemplate
    /\ fbuf = <<"c", "L">>

---------------------------------------------------------------------------
(* Properties of the concurrent logger (Spec). *)

\* A thread is inside a sink write: its Write is being issued or in flight.
InWrite(t) == pc[t] \in {"write", "writing"}

\* A thread is in Reopen between its close step and its return.
InReopenWindow(t) == pc[t] \in {"ropen", "rinstall"}

\* C2: when checkPrintable(category, level) is false, Printf, Println,
\* Sprintf and Sprintln return 0 bytes, a nil error and the empty string,
\* and the call does nothing else: no call context is captured, no header
\* rendered, no lock taken, and the sink, its content and the logger's
\* fields are as before.
C2_FilteredCallNoEffect ==
    [][\A t \in Threads :
         (/\ pc[t] = "filter"
          /\ pc'[t] # "filter"
          /\ ~checkPrintable(call[t].category, call[t].level)) =>
             /\ pc'[t] = "idle"
             /\ ret'[t] = [op |-> call[t].op, filtered |-> TRUE,
                           n |-> 0, err |-> "nil", s |-> <<>>]
             /\ trace'[t] = {}
             /\ UNCHANGED <<cfgVars, tplVars, sinkVars, committed, broken, lastOpened>>]_vars

\* C2's case: a Printf and a Sprintf call have both been filtered out, on a
\* logger whose template would have rendered a header.
C2_Witness ==
    /\ prefix # <<>>
    /\ \E t, u \in Threads :
          /\ pc[t] = "idle" /\ ret[t].filtered /\ ret[t].op = "Printf"
          /\ pc[u] = "idle" /\ ret[u].filtered /\ ret[u].op = "Sprintf"
          /\ trace[t] = {} /\ trace[u] = {}

\* The bytes of the Write in flight on file f, if any.
InFlight(f) ==
    LET W == {t \in Threads : pc[t] = "writing" /\ hfile[wh[t]] = f}
    IN  IF W = {} THEN <<>>
        ELSE LET t == CHOOSE t \in W : TRUE IN SubSeq(buf[t], 1, wn[t])

C4_Original ==
    /\ \A t \in Threads : pc[t] = "writing" => wh[t] \notin closed
    /\ \A u \in Threads : InReopenWindow(u) => \A t \in Threads \ {u} : ~InWrite(t)

\* C4, amended: while a Reopen holds the lock (from before its close step
\* until its deferred unlock), no other thread is inside a sink write: the
\* close step of Reopen never closes a sink under a write, and no write is
\* issued between that close step and the installation of the new handle.
\* (A Close call takes no lock and is not covered.)
C4_ReopenExcludesWrites ==
    \A u \in Threads :
        pc[u] \in {"rclose", "ropen", "rinstall"} =>
            \A t \in Threads \ {u} : ~InWrite(t) /\ ~(pc[t] = "unlock")

\* C4's case: a Reopen has closed the old handle and not yet installed a
\* new one, and a Printf or Println with its buffer composed is held at the
\* lock.
C4_Witness ==
    \E u, t \in Threads :
        /\ pc[u] = "ropen"
        /\ out \in closed
        /\ pc[t] = "lock"

\* C5: while the logger is broken (after Close, or after a Reopen whose
\* open failed and which returned the open error), the handle installed is
\* a closed one; every Write that Printf or Println issues then returns 0
\* bytes and an error and appends nothing to any file; and only the
\* installation of a newly opened handle by a successful Reopen ends it.
C5_BrokenWritesFail ==
    /\ [](broken => out \in closed)
    /\ [](\A t \in Threads :
            (ret[t].op = "Reopen" /\ ret[t].err = "OpenError" /\ pc[t] = "unlock") => broken)
    /\ [](\A t \in Threads : ret[t].err = "ErrClosed" => "append" \notin trace[t])
    /\ [][\A t \in Threads :
            (pc[t] = "write" /\ pc'[t] # "write" /\ broken) =>
                /\ pc'[t] = "unlock"
                /\ ret'[t].n = 0
                /\ ret'[t].err = "ErrClosed"
                /\ files' = files]_vars
    /\ [][(broken /\ ~broken') =>
            \E u \in Threads :
                /\ pc[u] = "rinstall"
                /\ pc'[u] = "unlock"
                /\ ret'[u].err = "nil"
                /\ out' = newh[u]
                /\ out' \notin closed]_vars

\* C5's case: a Reopen has failed at its open and returned the error, and
\* a Printf or Println issued after it got ErrClosed and wrote nothing.
C5_Witness ==
    \E u, t \in Threads :
        /\ pc[u] = "idle" /\ ret[u].op = "Reopen" /\ ret[u].err = "OpenError"
        /\ pc[t] = "idle" /\ ret[t].op \in PrintOps /\ ret[t].err = "ErrClosed"
        /\ ret[t].n = 0
        /\ broken
        /\ \A f \in 1..Len(files) : files[f] = <<>>

\* C6: every Write of Printf or Println is issued on the handle returned by
\* the most recent successful open (that of Open, then that of each Reopen
\* that succeeded), which is the handle installed, opened on the file then
\* at the path; also when the call rendered its header while an earlier
\* handle was installed.
C6_WritesGoToNewSink ==
    \A t \in Threads :
        (pc[t] \in {"writing", "unlock"} /\ call[t].op \in PrintOps) =>
            /\ wh[t] = lastOpened
            /\ wh[t] = out
            /\ hfile[wh[t]] = FileAtPath

\* C6's case: a Reopen that found the file renamed away has returned
\* success, and a call that rendered its header before it is now writing
\* to the new handle, on the new file.
C6_Witness ==
    \E u, t \in Threads :
        /\ pc[u] = "idle" /\ ret[u].op = "Reopen" /\ ret[u].err = "nil"
        /\ pc[t] = "writing" /\ wn[t] > 0
        /\ hdrOut[t] # wh[t]
        /\ wh[t] = lastOpened
        /\ hfile[hdrOut[t]] # hfile[wh[t]]
        /\ files[hfile[wh[t]]] = SubSeq(buf[t], 1, wn[t])

---------------------------------------------------------------------------
(* Termination and index range of the scan loop (SpecFmt). *)

\* C19: for every template (empty, a lone '%', ending in '%' or in a
\* directive included) the scan loop ends after at most len(template)
\* iterations: every step of an iteration moves the index strictly forward,
\* the index never passes len(template) + 1, a step is possible until the
\* loop is done, and every read of the template is at an index in
\* [0, len(template)) (no read panics).
C19_ScanTerminates ==
    /\ [](/\ fpc # "panic"
          /\ fpc \in {"loop", "dir", "done"}
          /\ fiter <= Len(prefix)
          /\ fiter <= fi
          /\ fi <= Len(prefix) + 1
          /\ fpc = "dir" => (0 <= fi /\ fi < Len(prefix))
          /\ fpc # "done" => ENABLED NextFmt)
    /\ [][/\ ((fpc = "loop" /\ fi < fend) \/ fpc = "dir") => fi' > fi
          /\ (fpc = "loop" /\ ~(fi < fend)) => fpc' = "done"
          /\ fiter' > fiter => (fi < Len(prefix) /\ fi' > fi)]_vars

\* C19's case: "%c%", which ends in a directive followed by a lone '%', has
\* been scanned to the end in two iterations.
C19_Witness ==
    /\ fpc = "done"
    /\ prefix = <<"%", "c", "%">>
    /\ fiter = 2
    /\ fi = 3
    /\ fbuf = Chars(fctx.category)

---------------------------------------------------------------------------
(* SetPrefix during a rendering (SpecRace). *)

\* C17 as stated: when SetPrefix runs concurrently with a call that is
\* rendering its header, the rendered header is the rendering of the old
\* or of the new template in full, never a mixture, and formatHeader never
\* reads the template at an index outside its current length.
C17_Original ==
    /\ fpc # "panic"
    /\ fpc = "dir" => fi < Len(prefix)
    /\ fpc = "done" => \E tpl \in fseen : fbuf = formatHeader(tpl, fctx, timeformat)

\* The first half of C17 alone: no read outside the current template.
C17_NoReadOutside == fpc # "panic"

\* The second half of C17 alone: a finished header is some held template's.
C17_NoMixture ==
    fpc = "done" => \E tpl \in fseen : fbuf = formatHeader(tpl, fctx, timeformat)

---------------------------------------------------------------------------
(* Configuration calls during a filter decision (SpecChk). *)

\* checkPrintable(category, level) evaluated in the configuration cfg.
CheckIn(cfg, category, level) ==
    IF category \in DOMAIN cfg.categories
    THEN Lookup(cfg.levelmap, level) <= cfg.categories[category]
    ELSE Lookup(cfg.levelmap, level) <= cfg.deflevel

\* C18 as stated: when SetLevelMap, SetDefaultLevel or SetCategory run
\* concurrently with a write call, the call's filter step reaches a
\* decision, and the decision is what checkPrintable gives in one single
\* configuration that existed between the start and the end of the step.
C18_Original ==
    /\ kpc # "fatal"
    /\ kpc = "done" =>
        \E i \in 1..Len(kseen) : kres = CheckIn(kseen[i], kcall.category, kcall.level)

\* The decision half of C18 alone.
C18_SingleConfiguration ==
    kpc = "done" =>
        \E i \in 1..Len(kseen) : kres = CheckIn(kseen[i], kcall.category, kcall.level)

---------------------------------------------------------------------------
(* Sprintf / Sprintln, the single write attempt, the extent of the lock    *)
(* (Spec).                                                                 *)

\* The write operation that composes the same buffer as a Sprint operation.
PrintOf(o) == IF o = "Sprintf" THEN "Printf" ELSE "Println"

\* C13: Sprintf and Sprintln never touch the sink and never take the lock.
\* In every state of the logger (sink closed or broken, lock held by
\* another thread) a Sprint call can take its next step; no step of it
\* changes the sink's content, the installed handle, the handles or the
\* lock; and when the filter passes it returns the header followed by the
\* body, the buffer the matching Printf / Println would write.
C13_SprintTouchesNothing ==
    /\ [](\A t \in Threads :
            (call[t].op \in SprintOps /\ pc[t] \in {"filter", "header"}) =>
                /\ mutex # t
                /\ ENABLED (FilterFail(t) \/ FilterPass(t) \/ SprintHeader(t)))
    /\ [][\A t \in Threads :
            (call[t].op \in SprintOps /\ pc'[t] # pc[t]) =>
                /\ UNCHANGED <<out, mutex, hfile, closed, files, committed, broken>>
                /\ trace'[t] \cap {"lock", "write", "append"} = {}
                /\ pc[t] = "header" =>
                    /\ pc'[t] = "idle"
                    /\ ~ret'[t].filtered
                    /\ ret'[t].s = Compose([call[t] EXCEPT !.op = PrintOf(call[t].op)])
                    /\ ret'[t].s = formatHeader(prefix, CtxOf(call[t].category, call[t].level),
                                                timeformat) \o Body(call[t].op)]_vars

\* C13's case: a Reopen has installed handle 2 and still holds the lock,
\* handle 2 has been closed by a Close since, and a Sprintf that rendered
\* its header in that state has returned "ax".
C13_Witness ==
    \E t, u \in Threads :
        /\ t # u
        /\ call[u].op = "Reopen"
        /\ pc[u] = "unlock"
        /\ mutex = u
        /\ out = 2
        /\ out \in closed
        /\ broken
        /\ pc[t] = "idle"
        /\ ret[t].op = "Sprintf"
        /\ ~ret[t].filtered
        /\ hdrOut[t] = 2
        /\ ret[t].s = <<"a", "x">>

\* C15: a Printf / Println that passes the filter issues exactly one write
\* attempt: the write step is entered once, from the lock step; it ends in
\* the attempt's result (0 bytes and the error on a closed sink, else all
\* of the buffer and no error) and is not gone through again; what the
\* call returns is that result unchanged; and on the failing path too the
\* lock is released as the call returns.
C15_SingleAttempt ==
    /\ [](\A t \in Threads :
            (call[t].op \in PrintOps /\ pc[t] = "unlock") =>
                /\ mutex = t
                /\ "write" \in trace[t]
                /\ ret[t].op = call[t].op
                /\ ~ret[t].filtered
                /\ \/ ret[t].err = "nil" /\ ret[t].n = Len(buf[t]) /\ wn[t] = Len(buf[t])
                   \/ /\ ret[t].err = "ErrClosed" /\ ret[t].n = 0 /\ wn[t] = 0
                      /\ wh[t] \in closed /\ "append" \notin trace[t])
    /\ [][\A t \in Threads : call[t].op \in PrintOps =>
            /\ (pc'[t] = "write" /\ pc[t] # "write") => pc[t] = "lock"
            /\ (pc[t] = "write" /\ trace'[t] # trace[t]) =>
                /\ "write" \notin trace[t]
                /\ pc'[t] \in {"writing", "unlock"}
                /\ wh'[t] \in closed =>
                    (pc'[t] = "unlock" /\ ret'[t].err = "ErrClosed" /\ ret'[t].n = 0)
            /\ (pc[t] = "writing" /\ pc'[t] # "writing") => pc'[t] = "unlock"
            /\ (pc[t] = "unlock" /\ pc'[t] # "unlock") =>
                /\ pc'[t] = "idle"
                /\ ret'[t] = ret[t]
                /\ mutex' = 0]_vars

\* C15's case: one thread's Println wrote its 3 bytes; then, the sink having
\* been closed, another thread's write attempt failed, the call returned
\* 0 and the error with no byte written, and the lock is free.
C15_Witness ==
    \E t, u \in Threads :
        /\ pc[u] = "idle"
        /\ ret[u].op = "Println"
        /\ ret[u].err = "nil"
        /\ ret[u].n = 3
        /\ pc[t] = "idle"
        /\ ret[t].op \in PrintOps
        /\ ~ret[t].filtered
        /\ ret[t].err = "ErrClosed"
        /\ ret[t].n = 0
        /\ "write" \in trace[t]
        /\ "append" \notin trace[t]
        /\ mutex = 0
        /\ files[1] = <<"a", "x", "\n">>

\* The steps of a call that run with log.mutex held: the write of Printf /
\* Println, the close, open and install of Reopen, and the deferred unlock.
LockedSteps == {"write", "writing", "unlock", "rclose", "ropen", "rinstall"}

\* C16: a thread holds the lock exactly while it is in the sink write of
\* Printf / Println or in the close-and-open of Reopen: never while the
\* filter is evaluated or the header rendered.  So while another thread
\* holds the lock, for however long, a call that the filter rejects can
\* take its filter step and return, a Sprintf / Sprintln can take its
\* header step and return, and no filter or header step touches the lock.
C16_LockOnlyAroundSink ==
    /\ [](\A t \in Threads :
            /\ mutex = t <=> pc[t] \in LockedSteps
            /\ (mutex \notin {0, t} /\ pc[t] = "filter"
                  /\ ~checkPrintable(call[t].category, call[t].level)) =>
                   ENABLED FilterFail(t)
            /\ (mutex \notin {0, t} /\ pc[t] = "header" /\ call[t].op \in SprintOps) =>
                   ENABLED SprintHeader(t))
    /\ [][\A t \in Threads :
            (pc[t] \in {"filter", "header"} /\ pc'[t] # pc[t]) =>
                /\ mutex' = mutex
                /\ pc'[t] \in {"idle", "header", "lock"}]_vars

\* C16's case: a thread is stalled in the middle of its sink write, holding
\* the lock, while another thread is at the filter step of a call that the
\* filter rejects.
C16_Witness ==
    \E t, u \in Threads :
        /\ pc[u] = "writing"
        /\ wn[u] = 1
        /\ mutex = u
        /\ pc[t] = "filter"
        /\ ~checkPrintable(call[t].category, call[t].level)
        /\ ENABLED FilterFail(t)

---------------------------------------------------------------------------
(* Every call returns (SpecLive). *)

\* C12: under fair scheduling of the concurrent callers, and with every
\* open, write and close of the sink returning, every Printf, Println and
\* Reopen call that has started eventually returns, and a lock that is
\* held is eventually released: on the failed write and the failed open as
\* on the successful paths, and in Reopen, which closes the sink while it
\* holds the lock.
C12_CallsReturn ==
    /\ \A t \in Threads :
         (call[t].op \in PrintOps \cup {"Reopen"}) ~> (pc[t] = "idle" /\ ret[t].op # "none")
    /\ \A t \in Threads : (mutex = t) ~> (mutex = 0)

\* C12's case: a Reopen whose open failed has returned its error, a write
\* call that had to take the lock has returned the write's error, and the
\* lock is free.
C12_Witness ==
    \E t, u \in Threads :
        /\ t # u
        /\ pc[t] = "idle"
        /\ ret[t].op = "Reopen"
        /\ ret[t].err = "OpenError"
        /\ "lock" \in trace[t]
        /\ pc[u] = "idle"
        /\ ret[u].op \in PrintOps
        /\ ret[u].err = "ErrClosed"
        /\ "lock" \in trace[u]
        /\ mutex = 0
        /\ ncalls = MaxCalls

====
